---- MODULE Spec2Model ----
(***************************************************************************)
(* Model of Chapter01_Markov_Chains/utilities.py: the module-level palette *)
(* COLORS and the style initializer init(use_latex=False), which writes    *)
(* ten keys of matplotlib's process-wide registry mpl.rcParams.            *)
(*                                                                         *)
(* Text that the program treats as a color specifier is modelled as a      *)
(* sequence of one-character strings, so that "is a hex color" and "which  *)
(* color is it" are computed and not assumed.  Other values (numbers,      *)
(* booleans, font names) keep their natural representation.                *)
(***************************************************************************)
EXTENDS Integers, Sequences, FiniteSets, TLC

VARIABLES
    COLORS,      \* the module-level list COLORS (a mutable Python list)
    rcParams,    \* mpl.rcParams restricted to Keys
    raised,      \* TRUE once a statement of init has raised
    prior,       \* history: rcParams before the first call
    history,     \* history: positional arguments of the last two calls of
                 \*          init that returned, the latest last
    twin,        \* history: result of the last call had it been given the
                 \*          opposite flag, from the same configuration
    axes,        \* the current Axes: <<>> or <<its record>>
    pc,          \* per thread: 0 outside init, else the source line to run
    use_latex,   \* per thread: the parameter use_latex of the running call
    finished,    \* per thread: the thread's call has returned
    lastToggle,  \* history: <<>> or <<t>>, thread that wrote text.usetex last
    overlap,     \* history: a thread ran a statement while another was in init
    partialSeen  \* history: a half-written registry was observable

vars == <<COLORS, rcParams, raised, prior, history, twin, axes,
          pc, use_latex, finished, lastToggle, overlap, partialSeen>>

seqVars == <<history, twin, axes>>
thrVars == <<pc, use_latex, finished, lastToggle, overlap, partialSeen>>

-----------------------------------------------------------------------------
(* Bounds *)

\* most series drawn on one Axes
MaxSeries == 7

Threads == {1, 2}

-----------------------------------------------------------------------------
(* Color specifiers (matplotlib.colors) *)

HexDigits == <<"0","1","2","3","4","5","6","7","8","9","a","b","c","d","e","f">>

Lower(ch) ==
    CASE ch = "A" -> "a" [] ch = "B" -> "b" [] ch = "C" -> "c"
      [] ch = "D" -> "d" [] ch = "E" -> "e" [] ch = "F" -> "f"
      [] OTHER -> ch

IsHexDigit(ch) == \E i \in DOMAIN HexDigits : HexDigits[i] = Lower(ch)

HexVal(ch) == (CHOOSE i \in DOMAIN HexDigits : HexDigits[i] = Lower(ch)) - 1

\* '#' followed by exactly six hexadecimal digits
IsHexColor(c) ==
    /\ Len(c) = 7
    /\ c[1] = "#"
    /\ \A i \in 2..7 : IsHexDigit(c[i])

\* '#rgb', the short form
IsShortHexColor(c) ==
    /\ Len(c) = 4
    /\ c[1] = "#"
    /\ \A i \in 2..4 : IsHexDigit(c[i])

White == <<"w","h","i","t","e">>
Black == <<"b","l","a","c","k">>

NamedColors == {White, Black}

NamedHex(c) ==
    IF c = White THEN <<"#","F","F","F","F","F","F">>
                 ELSE <<"#","0","0","0","0","0","0">>

is_color_like(c) == c \in NamedColors \/ IsHexColor(c) \/ IsShortHexColor(c)

HexToRgb(c) == << 16 * HexVal(c[2]) + HexVal(c[3]),
                  16 * HexVal(c[4]) + HexVal(c[5]),
                  16 * HexVal(c[6]) + HexVal(c[7]) >>

\* the color a specifier stands for, as <<red, green, blue>> in 0..255
to_rgb(c) ==
    IF c \in NamedColors THEN HexToRgb(NamedHex(c))
    ELSE IF IsHexColor(c) THEN HexToRgb(c)
    ELSE IF IsShortHexColor(c) THEN << 17 * HexVal(c[2]), 17 * HexVal(c[3]),
                                       17 * HexVal(c[4]) >>
    ELSE << -1, -1, -1 >>

-----------------------------------------------------------------------------
(* utilities.py *)

\* variant: the first entry has lost a digit
COLORS_typo ==
    << <<"#","2","4","2","4","8">>,     <<"#","F","0","0","D","2","C">>,
       <<"#","0","0","7","1","B","E">>, <<"#","4","E","8","F","0","0">>,
       <<"#","5","5","3","C","6","7">>, <<"#","D","A","5","3","1","9">> >>

\* line 5
COLORS_literal ==
    << <<"#","2","4","2","4","8","2">>, <<"#","F","0","0","D","2","C">>,
       <<"#","0","0","7","1","B","E">>, <<"#","4","E","8","F","0","0">>,
       <<"#","5","5","3","C","6","7">>, <<"#","D","A","5","3","1","9">> >>

FirstLine == 8
LastLine  == 17

\* variant: lines 11 and 12 assign each other's key
KeyOf_swapped(line) ==
    CASE line = 8  -> "figure.dpi"
      [] line = 9  -> "axes.linewidth"
      [] line = 10 -> "lines.linewidth"
      [] line = 11 -> "legend.fontsize"
      [] line = 12 -> "font.size"
      [] line = 13 -> "pdf.fonttype"
      [] line = 14 -> "figure.facecolor"
      [] line = 15 -> "font.sans-serif"
      [] line = 16 -> "text.usetex"
      [] line = 17 -> "axes.prop_cycle"

\* the keys init assigns, by source line
KeyOf(line) ==
    CASE line = 8  -> "figure.dpi"
      [] line = 9  -> "axes.linewidth"
      [] line = 10 -> "lines.linewidth"
      [] line = 11 -> "font.size"
      [] line = 12 -> "legend.fontsize"
      [] line = 13 -> "pdf.fonttype"
      [] line = 14 -> "figure.facecolor"
      [] line = 15 -> "font.sans-serif"
      [] line = 16 -> "text.usetex"
      [] line = 17 -> "axes.prop_cycle"

WrittenKeys == { KeyOf(l) : l \in FirstLine..LastLine }

\* registry keys the module never names
OtherKeys == {"lines.markersize", "axes.grid"}

Keys == WrittenKeys \cup OtherKeys

\* variant: the cycle misses the last entry of the list
cycler_short(colors) == [i \in 1..(Len(colors) - 1) |-> colors[i]]

\* cycler(color=colors): a cycle holding a copy of the list's entries
cycler(colors) == [i \in 1..Len(colors) |-> colors[i]]

\* RcParams.__setitem__ validates the value before it stores it
validate(key, val) ==
    CASE key = "figure.facecolor" -> is_color_like(val)
      [] key = "axes.prop_cycle"  -> \A i \in DOMAIN val : is_color_like(val[i])
      [] key = "pdf.fonttype"     -> val \in {3, 42}
      [] key = "text.usetex"      -> val \in BOOLEAN
      [] OTHER                    -> TRUE

setitem(conf, key, val) == [conf EXCEPT ![key] = val]

\* variant: the call also switches the LaTeX toggle off
plt_rc_text(conf, group, name, val) ==
    IF group = "axes" /\ name = "prop_cycle"
    THEN setitem(setitem(conf, "axes.prop_cycle", val), "text.usetex", FALSE)
    ELSE conf

\* variant: the call also sets axes.grid
plt_rc_grid(conf, group, name, val) ==
    IF group = "axes" /\ name = "prop_cycle"
    THEN setitem(setitem(conf, "axes.prop_cycle", val), "axes.grid", FALSE)
    ELSE conf

\* plt.rc(group, name=val) stores val under "group.name"
plt_rc(conf, group, name, val) ==
    IF group = "axes" /\ name = "prop_cycle"
    THEN setitem(conf, "axes.prop_cycle", val)
    ELSE conf

\* variant: line 9 assigns 1
ValueOf_thin(line, colors, flag) ==
    CASE line = 8  -> 150
      [] line = 9  -> 1
      [] line = 10 -> 2
      [] line = 11 -> 14
      [] line = 12 -> 10
      [] line = 13 -> 42
      [] line = 14 -> White
      [] line = 15 -> <<"Helvetica Neue", "Helvetica", "Tahoma">>
      [] line = 16 -> flag
      [] line = 17 -> cycler(colors)

\* variant: line 11 chooses the font size by the flag
ValueOf_latexfont(line, colors, flag) ==
    CASE line = 8  -> 150
      [] line = 9  -> 2
      [] line = 10 -> 2
      [] line = 11 -> IF flag THEN 12 ELSE 14
      [] line = 12 -> 10
      [] line = 13 -> 42
      [] line = 14 -> White
      [] line = 15 -> <<"Helvetica Neue", "Helvetica", "Tahoma">>
      [] line = 16 -> flag
      [] line = 17 -> cycler(colors)

\* variant: line 8 chooses the resolution by the flag
ValueOf_latexdpi(line, colors, flag) ==
    CASE line = 8  -> IF flag THEN 300 ELSE 150
      [] line = 9  -> 2
      [] line = 10 -> 2
      [] line = 11 -> 14
      [] line = 12 -> 10
      [] line = 13 -> 42
      [] line = 14 -> White
      [] line = 15 -> <<"Helvetica Neue", "Helvetica", "Tahoma">>
      [] line = 16 -> flag
      [] line = 17 -> cycler(colors)

\* the value the statement at a source line of init assigns
ValueOf(line, colors, flag) ==
    CASE line = 8  -> 150
      [] line = 9  -> 2
      [] line = 10 -> 2
      [] line = 11 -> 14
      [] line = 12 -> 10
      [] line = 13 -> 42
      [] line = 14 -> White
      [] line = 15 -> <<"Helvetica Neue", "Helvetica", "Tahoma">>
      [] line = 16 -> flag
      [] line = 17 -> cycler(colors)

\* variant: line 16 only ever switches the toggle on
Stmt_sticky(line, conf, colors, flag) ==
    IF line = 17
    THEN plt_rc(conf, "axes", "prop_cycle", ValueOf(17, colors, flag))
    ELSE IF line = 16
    THEN setitem(conf, "text.usetex", conf["text.usetex"] \/ flag)
    ELSE setitem(conf, KeyOf(line), ValueOf(line, colors, flag))

\* the registry after the statement at a source line has run
Stmt(line, conf, colors, flag) ==
    IF line = 17
    THEN plt_rc(conf, "axes", "prop_cycle", ValueOf(17, colors, flag))
    ELSE setitem(conf, KeyOf(line), ValueOf(line, colors, flag))

Raises(line, colors, flag) ==
    ~ validate(KeyOf(line), ValueOf(line, colors, flag))

\* the body of init from a source line on; an exception ends it
RECURSIVE RunFrom(_, _, _, _)
RunFrom(line, conf, colors, flag) ==
    IF line > LastLine THEN [rc |-> conf, raised |-> FALSE]
    ELSE IF Raises(line, colors, flag) THEN [rc |-> conf, raised |-> TRUE]
    ELSE RunFrom(line + 1, Stmt(line, conf, colors, flag), colors, flag)

\* variant: the default of use_latex is True
Bind_on(args) == IF Len(args) = 0 THEN TRUE ELSE args[1]

\* def init(use_latex=False): the parameter bound from the positional arguments
Bind(args) == IF Len(args) = 0 THEN FALSE ELSE args[1]

Args == { <<>>, <<FALSE>>, <<TRUE>> }

\* a whole call of init
InitCall(conf, colors, args) == RunFrom(FirstLine, conf, colors, Bind(args))

-----------------------------------------------------------------------------
(* Configurations the registry can hold before the first call *)

DefaultCycle == << <<"#","1","f","7","7","b","4">>, <<"#","f","f","7","f","0","e">> >>

PriorValue(key, n) ==
    CASE key = "figure.dpi"       -> IF n = 1 THEN 100 ELSE 150
      [] key = "axes.linewidth"   -> IF n = 1 THEN 1 ELSE 2
      [] key = "lines.linewidth"  -> IF n = 1 THEN 1 ELSE 3
      [] key = "font.size"        -> IF n = 1 THEN 10 ELSE 14
      [] key = "legend.fontsize"  -> IF n = 1 THEN 12 ELSE 10
      [] key = "pdf.fonttype"     -> IF n = 1 THEN 3 ELSE 42
      [] key = "figure.facecolor" -> IF n = 1 THEN Black ELSE White
      [] key = "font.sans-serif"  -> IF n = 1 THEN <<"DejaVu Sans", "Arial">>
                                              ELSE <<"Tahoma", "Helvetica">>
      [] key = "text.usetex"      -> (n = 2)
      [] key = "axes.prop_cycle"  -> IF n = 1 THEN DefaultCycle
                                              ELSE cycler(COLORS_literal)
      [] key = "lines.markersize" -> IF n = 1 THEN 6 ELSE 8
      [] key = "axes.grid"        -> (n = 2)

\* keys whose prior values are chosen together
GroupOf(key) ==
    CASE key = "figure.facecolor" -> "facecolor"
      [] key = "text.usetex"      -> "usetex"
      [] key = "axes.prop_cycle"  -> "cycle"
      [] key \in OtherKeys        -> "others"
      [] OTHER                    -> "scalars"

PriorChoices == [ {GroupOf(k) : k \in Keys} -> {1, 2} ]

PriorConfig(m) == [k \in Keys |-> PriorValue(k, m[GroupOf(k)])]

Init ==
    /\ COLORS = COLORS_literal
    /\ \E m \in PriorChoices : rcParams = PriorConfig(m)
    /\ raised = FALSE
    /\ prior = rcParams
    /\ history = <<>>
    /\ twin = rcParams
    /\ axes = <<>>
    /\ pc = [t \in Threads |-> 0]
    /\ use_latex = [t \in Threads |-> FALSE]
    /\ finished = [t \in Threads |-> FALSE]
    /\ lastToggle = <<>>
    /\ overlap = FALSE
    /\ partialSeen = FALSE

-----------------------------------------------------------------------------
(* Single-threaded use: whole calls of init, and figures drawn between them *)

called == Len(history) > 0

lastArgs == history[Len(history)]

init(args) ==
    LET r == InitCall(rcParams, COLORS, args)
        o == InitCall(rcParams, COLORS, << ~ Bind(args) >>)
    IN  /\ ~ raised
        /\ rcParams' = r.rc
        /\ raised' = r.raised
        /\ history' = IF Len(history) < 2 THEN Append(history, args)
                                           ELSE <<history[2], args>>
        /\ twin' = o.rc
        /\ UNCHANGED <<COLORS, prior, axes>>
        /\ UNCHANGED thrVars

\* plt.subplots(): a new Axes takes its property cycle from the registry
subplots ==
    /\ ~ raised
    /\ axes' = << [cycle |-> rcParams["axes.prop_cycle"],
                   lines |-> <<>>,
                   styled |-> called] >>
    /\ UNCHANGED <<COLORS, rcParams, raised, prior, history, twin>>
    /\ UNCHANGED thrVars

\* ax.plot(...) without a color: the series takes the next color of the cycle
plot ==
    /\ ~ raised
    /\ Len(axes) = 1
    /\ Len(axes[1].lines) < MaxSeries
    /\ LET a == axes[1]
           k == Len(a.lines)
       IN  axes' = << [a EXCEPT !.lines =
                          Append(a.lines, a.cycle[(k % Len(a.cycle)) + 1])] >>
    /\ UNCHANGED <<COLORS, rcParams, raised, prior, history, twin>>
    /\ UNCHANGED thrVars

Next ==
    \/ \E args \in Args : init(args)
    \/ subplots
    \/ plot

Spec == Init /\ [][Next]_vars

-----------------------------------------------------------------------------
(* Two threads inside init: the statements of lines 8-17 run one at a time *)

\* some key of init already holds its new value while another still holds a
\* prior value that init is going to replace
HalfWritten(conf, old, colors, flag) ==
    \E j, k \in FirstLine..LastLine :
        /\ conf[KeyOf(j)] = ValueOf(j, colors, flag)
        /\ conf[KeyOf(j)] # old[KeyOf(j)]
        /\ conf[KeyOf(k)] = old[KeyOf(k)]
        /\ conf[KeyOf(k)] # ValueOf(k, colors, flag)

\* thread t enters init; each thread makes one call
Call(t, args) ==
    /\ ~ raised
    /\ pc[t] = 0
    /\ ~ finished[t]
    /\ pc' = [pc EXCEPT ![t] = FirstLine]
    /\ use_latex' = [use_latex EXCEPT ![t] = Bind(args)]
    /\ UNCHANGED <<COLORS, rcParams, raised, prior, finished, lastToggle,
                   overlap, partialSeen>>
    /\ UNCHANGED seqVars

\* thread t runs the statement at its current line; after line 17 it returns
Step(t) ==
    /\ ~ raised
    /\ pc[t] # 0
    /\ LET line == pc[t]
           bad  == Raises(line, COLORS, use_latex[t])
           conf == IF bad THEN rcParams
                          ELSE Stmt(line, rcParams, COLORS, use_latex[t])
       IN  /\ rcParams' = conf
           /\ raised' = bad
           /\ pc' = [pc EXCEPT ![t] = IF bad \/ line = LastLine THEN 0
                                                               ELSE line + 1]
           /\ finished' = [finished EXCEPT ![t] = @ \/ (~ bad /\ line = LastLine)]
           /\ lastToggle' = IF ~ bad /\ line = 16 THEN <<t>> ELSE lastToggle
           /\ overlap' = (overlap \/ \E u \in Threads \ {t} : pc[u] # 0)
           /\ partialSeen' = (partialSeen \/
                   (pc'[t] # 0 /\ HalfWritten(conf, prior, COLORS, use_latex[t])))
    /\ UNCHANGED <<COLORS, prior, use_latex>>
    /\ UNCHANGED seqVars

NextThreads ==
    \/ \E t \in Threads, args \in Args : Call(t, args)
    \/ \E t \in Threads : Step(t)

SpecThreads == Init /\ [][NextThreads]_vars

-----------------------------------------------------------------------------
(* Properties *)

usetex == rcParams["text.usetex"]

\* C1: after any non-empty sequence of calls of init, every key init writes
\* holds the value the last call alone would have produced from the original
\* configuration; two equal calls in a row leave the configuration a single
\* one produces; init(False) followed by init(True) ends with the toggle on.
C1_LastWriteWins ==
    called =>
        /\ ~ raised
        /\ \A k \in WrittenKeys :
               rcParams[k] = InitCall(prior, COLORS, lastArgs).rc[k]
        /\ (Len(history) = 2 /\ Bind(history[1]) = Bind(history[2]))
               => rcParams = InitCall(prior, COLORS, lastArgs).rc
        /\ (Len(history) = 2 /\ history[1] = <<FALSE>> /\ history[2] = <<TRUE>>)
               => usetex = TRUE

C1_Witness ==
    /\ history = << <<FALSE>>, <<TRUE>> >>
    /\ usetex = TRUE
    /\ prior["font.size"] # 14
    /\ rcParams["font.size"] = 14

\* C2: a call of init without arguments raises nothing and leaves the LaTeX
\* toggle off, whatever it was before.
C2_DefaultOff ==
    (called /\ lastArgs = <<>>) => (~ raised /\ usetex = FALSE)

C2_Witness ==
    /\ history = << <<TRUE>>, <<>> >>
    /\ ~ raised
    /\ usetex = FALSE

\* C3: after init(True) the LaTeX toggle is on and stays on until the next
\* call; no statement of init other than line 16 changes the toggle.
C3_LatexOn ==
    /\ (called /\ lastArgs = <<TRUE>>) => usetex = TRUE
    /\ \A line \in (FirstLine..LastLine) \ {16}, flag \in BOOLEAN :
           Stmt(line, rcParams, COLORS, flag)["text.usetex"] = usetex

C3_Witness ==
    /\ called
    /\ lastArgs = <<TRUE>>
    /\ prior["text.usetex"] = FALSE
    /\ usetex = TRUE
    /\ Len(axes) = 1
    /\ axes[1].styled
    /\ Len(axes[1].lines) >= 1

\* C4: after init the registry's color cycle is the six-entry palette in its
\* declared order, and on an Axes created after init the k-th series drawn
\* (k = 0, 1, ...) has color COLORS[k mod 6].
C4_ColorCycle ==
    /\ called =>
           /\ Len(rcParams["axes.prop_cycle"]) = 6
           /\ rcParams["axes.prop_cycle"] = COLORS_literal
    /\ (Len(axes) = 1 /\ axes[1].styled) =>
           \A k \in 0..(Len(axes[1].lines) - 1) :
               axes[1].lines[k + 1] = COLORS_literal[(k % 6) + 1]

C4_Witness ==
    /\ prior["axes.prop_cycle"] = DefaultCycle
    /\ Len(axes) = 1
    /\ axes[1].styled
    /\ Len(axes[1].lines) >= 7
    /\ axes[1].lines[6] = COLORS_literal[6]
    /\ axes[1].lines[7] = COLORS_literal[1]

\* C5: after init() the figure background is the color #FFFFFF, the axis
\* line width is 2 and the font size is 14.
C5_DefaultStyle ==
    (called /\ lastArgs = <<>>) =>
        /\ to_rgb(rcParams["figure.facecolor"])
               = to_rgb(<<"#","F","F","F","F","F","F">>)
        /\ rcParams["axes.linewidth"] = 2
        /\ rcParams["font.size"] = 14

C5_Witness ==
    /\ called
    /\ lastArgs = <<>>
    /\ to_rgb(prior["figure.facecolor"]) = <<0, 0, 0>>
    /\ prior["axes.linewidth"] = 1
    /\ to_rgb(rcParams["figure.facecolor"]) = <<255, 255, 255>>

\* C6: COLORS has exactly six entries, each a hex color specifier, and in
\* every state reached by calls of init it equals its value at module load.
C6_PaletteFixed ==
    /\ Len(COLORS) = 6
    /\ \A i \in DOMAIN COLORS : IsHexColor(COLORS[i])
    /\ COLORS = COLORS_literal

C6_Witness ==
    /\ Len(history) = 2
    /\ Len(COLORS) = 6
    /\ rcParams["axes.prop_cycle"] = COLORS
    /\ prior["axes.prop_cycle"] # COLORS

\* C7: after any call init(b) each of the ten options holds its fixed value,
\* text.usetex holds b and the color cycle is COLORS.
C7_AllOptions ==
    called =>
        /\ ~ raised
        /\ rcParams["figure.dpi"] = 150
        /\ rcParams["axes.linewidth"] = 2
        /\ rcParams["lines.linewidth"] = 2
        /\ rcParams["font.size"] = 14
        /\ rcParams["legend.fontsize"] = 10
        /\ rcParams["pdf.fonttype"] = 42
        /\ rcParams["figure.facecolor"] = White
        /\ rcParams["font.sans-serif"] = <<"Helvetica Neue", "Helvetica", "Tahoma">>
        /\ rcParams["text.usetex"] = Bind(lastArgs)
        /\ rcParams["axes.prop_cycle"] = COLORS

C7_Witness ==
    /\ called
    /\ lastArgs = <<TRUE>>
    /\ prior = PriorConfig([g \in DOMAIN CHOOSE m \in PriorChoices : TRUE |-> 1])
    /\ rcParams["figure.dpi"] = 150
    /\ rcParams["text.usetex"] = TRUE

TenKeys ==
    {"figure.dpi", "axes.linewidth", "lines.linewidth", "font.size",
     "legend.fontsize", "pdf.fonttype", "figure.facecolor", "font.sans-serif",
     "text.usetex", "axes.prop_cycle"}

\* C8: a call of init changes no key of the registry other than the ten
\* keys it assigns.
C8_Frame ==
    [][ /\ WrittenKeys = TenKeys
        /\ \A k \in Keys \ TenKeys : rcParams'[k] = rcParams[k] ]_vars

C8_Witness ==
    /\ called
    /\ rcParams["lines.markersize"] = 8
    /\ rcParams["axes.grid"] = TRUE
    /\ prior["figure.dpi"] # rcParams["figure.dpi"]

\* C9: init(False) and init(True), run from the same configuration, end in
\* configurations that agree on every key but text.usetex; the color cycle is
\* the same in both.
C9_FlagOnlyToggle ==
    called =>
        /\ \A k \in Keys \ {"text.usetex"} : rcParams[k] = twin[k]
        /\ rcParams["axes.prop_cycle"] = twin["axes.prop_cycle"]

C9_Witness ==
    /\ called
    /\ twin["text.usetex"] # rcParams["text.usetex"]
    /\ twin["font.size"] = 14
    /\ prior["font.size"] # 14

AllReturned == \A t \in Threads : pc[t] = 0 /\ finished[t]

\* C10: when two threads have both returned from init, however their
\* statements interleaved, the keys init writes hold the result of one of the
\* two calls run alone, and text.usetex holds the flag of the thread that
\* wrote it last.
C10_SequentialOutcome ==
    AllReturned =>
        /\ ~ raised
        /\ \E t \in Threads : \A k \in WrittenKeys :
               rcParams[k] = InitCall(prior, COLORS, <<use_latex[t]>>).rc[k]
        /\ Len(lastToggle) = 1
        /\ usetex = use_latex[lastToggle[1]]

C10_Witness ==
    /\ AllReturned
    /\ use_latex[1] # use_latex[2]
    /\ overlap
    /\ partialSeen
    /\ lastToggle = <<1>>
    /\ usetex = use_latex[1]

====
